---------------------------- MODULE Spec2Model ----------------------------
(***************************************************************************)
(* A model of src/dbus/dbus.go: the job-completion correlator (startJob,   *)
(* runJob and the listener goroutine of initSubscriber) and the polling    *)
(* subscription of SubscribeUnitsCustom.                                   *)
(*                                                                         *)
(* The two subsystems share no state.  JobSpec runs the correlator,        *)
(* PollSpec runs one subscription; Spec is their interleaving.             *)
(***************************************************************************)
EXTENDS Naturals, Sequences, FiniteSets, TLC

(***************************************************************************)
(* Bounds of the model and constants of the program.                       *)
(***************************************************************************)
\* The number of signals the transport puts on the listener's channel.
MaxSignals == 4

\* const signalBuffer = 100: the capacity of the listener's signal channel.
signalBuffer == 100

\* make(chan string, 1): the capacity of a completion channel.
completionCap == 1

\* The goroutines that call runJob, one call each.
Callers == {"c1", "c2"}

\* The job paths the transport hands out (dbus.ObjectPath values).
Paths == {"/job/1", "/job/2"}

\* The unit names a JobRemoved signal can carry.
Units == {"a.service"}

\* Result strings of a JobRemoved signal (two of the six systemd sends).
Results == {"done", "failed"}

\* The poll cycles one subscription runs.
MaxCycles == 3

\* The length of the list a ListUnits call returns.
MaxUnits == 2

\* The buffer arguments of SubscribeUnitsCustom: unbuffered channels, as
\* SubscribeUnits asks for, and channels of capacity one.
Buffers == {0, 1}

\* The calls of SubscribeUnitsCustom.
Subs == {"s1", "s2"}

\* The unit names ListUnits reports.
Names == {"a.service", "b.service"}

\* UnitStatus.ActiveState and UnitStatus.JobId, the fields of the record kept.
ActiveStates == {"active", "inactive"}
JobIds == {0, 1}

\* The isChanged arguments: the one SubscribeUnits passes, one that ignores
\* the job fields, and one that reports every unit as changed.
Comparators == {"default", "ignoreJob", "always"}

managerInterface == "org.freedesktop.systemd1.Manager"
JobRemoved == "JobRemoved"

\* The lock is free, or held by the listener or by a caller.
Free == "free"
Listener == "listener"

\* No channel: the zero value of lOut.
NoChan == "nochan"
NoPath == "nopath"
NoResult == "noresult"

(***************************************************************************)
(* Signals.  A *dbus.Signal is nil, or has a Name and a Body; the body of  *)
(* a JobRemoved signal is (id, job, unit, result), of which the listener   *)
(* uses job and result.                                                    *)
(***************************************************************************)
NilSignal == [name |-> "nil", job |-> NoPath, unit |-> "", result |-> NoResult]

OtherSignal == [name |-> "UnitNew", job |-> NoPath, unit |-> "", result |-> NoResult]

JobRemovedSignals ==
    [name : {JobRemoved}, job : Paths, unit : Units, result : Results]

Signals == JobRemovedSignals \cup {NilSignal, OtherSignal}

VARIABLES
    \* ---- the job correlator ----
    jobs,       \* subscriber.jobs: job path -> completion channel (its caller)
    jobsLock,   \* subscriber.jobsLock: Free, Listener or the caller holding it
    sigCh,      \* ch of initSubscriber: the signals waiting for the listener
    nSignals,   \* how many signals the transport has produced
    lPc,        \* the listener's position
    lSig,       \* signal: the signal the listener is processing
    lOut,       \* out: the channel the listener found for it
    cPc,        \* each caller's position in runJob/startJob
    cPath,      \* path: the job path its transport call returned
    chanBuf,    \* the contents of each caller's completion channel
    cGot,       \* what runJob returned to each caller
    nWritten,   \* how many values were ever written to each channel
    sigSeq,     \* for each signal waiting in sigCh, its ordinal among the
                \* signals the transport produced (history)
    lSeq,       \* the ordinal of the signal the listener took last (history)
    wSeq,       \* the ordinal of the signal whose result was written last
                \* (history)
    \* ---- the subscriptions, each a function of the subscription ----
    pPc,        \* the poller goroutine's position ("off": not started)
    buffer,     \* the buffer argument
    isChangedF, \* the isChanged argument
    old,        \* old: the retained snapshot, unit name -> UnitStatus
    changed,    \* changed: the delta the poller is about to send
    lastGood,   \* the snapshot of the last successful ListUnits (history)
    statusChan, \* the contents of statusChan
    errChan,    \* the contents of errChan
    timer,      \* timerChan: "idle", "armed" or "fired"
    cycleLog,   \* "ok" or "fail" for each ListUnits call so far (history)
    nDeltas,    \* how many deltas statusChan has accepted
    nErrs,      \* how many errors errChan has accepted
    nFired,     \* how many of the subscription's timers have expired (history)
    view,       \* the consumer's inventory: every delta it read, applied
    snapChan    \* for each delta waiting in statusChan, the snapshot of the
                \* fetch that produced it (history)

jobVars == <<jobs, jobsLock, sigCh, nSignals, lPc, lSig, lOut, cPc, cPath,
             chanBuf, cGot, nWritten, sigSeq, lSeq, wSeq>>

pollVars == <<pPc, buffer, isChangedF, old, changed, lastGood, statusChan,
              errChan, timer, cycleLog, nDeltas, nErrs, nFired, view,
              snapChan>>

vars == <<jobVars, pollVars>>

(***************************************************************************)
(* The pending-job table, a Go map.                                        *)
(***************************************************************************)
EmptyMap == [p \in {} |-> NoChan]

\* out, ok := s.jobs[job]: ok
Lookup(tbl, job) == job \in DOMAIN tbl

\* A registration that keeps the channel a path already has.
RegisterKeepsFirst(tbl, path, ch) ==
    [p \in DOMAIN tbl \cup {path} |-> IF p \in DOMAIN tbl THEN tbl[p] ELSE ch]

\* subscriber.jobs[path] = ch
Register(tbl, path, ch) ==
    [p \in DOMAIN tbl \cup {path} |-> IF p = path THEN ch ELSE tbl[p]]

\* The table after the listener has delivered the result for job: the
\* listener's critical section has no delete(s.jobs, job).
AfterDelivery(tbl, job) == tbl

\* What is put on a completion channel: the result string, with the job
\* path of the signal it came from (history, not program state).
Delivered(sig) == [val |-> sig.result, from |-> sig.job]

NoValue == [val |-> NoResult, from |-> NoPath]

(***************************************************************************)
(* Unit records, snapshots and deltas.  A UnitStatus is modelled by its    *)
(* Name and two of its other fields, a unit that is not active having no   *)
(* job; a Go map is a function whose domain is its key set; NilUnit is the *)
(* nil *UnitStatus of a delta.                                             *)
(***************************************************************************)
UnitStatus ==
    {u \in [Name : Names, ActiveState : ActiveStates, JobId : JobIds] :
        u.ActiveState = "active" \/ u.JobId = 0}

NilUnit == [Name |-> "nil", ActiveState |-> "", JobId |-> 0]

\* make(map[string]*UnitStatus)
EmptyUnits == [n \in {} |-> NilUnit]

NoDelta == [n \in {"none"} |-> NilUnit]

\* The lists ListUnits can return.
UnitLists == UNION {[1..k -> UnitStatus] : k \in 0..MaxUnits}

\* A comparison that looks at ActiveState alone, whatever was passed.
IsChangedActiveOnly(f, u1, u2) == u1.ActiveState # u2.ActiveState

\* isChanged(u1, u2)
IsChanged(f, u1, u2) ==
    CASE f = "default" -> u1 # u2           \* *u1 != *u2
      [] f = "ignoreJob" -> u1.ActiveState # u2.ActiveState
      [] OTHER -> TRUE

\* cur: for i := range units { cur[units[i].Name] = &units[i] }
CurOf(units) ==
    LET names == {units[i].Name : i \in 1..Len(units)}
        last(n) == CHOOSE i \in 1..Len(units) :
                      /\ units[i].Name = n
                      /\ \A j \in 1..Len(units) : units[j].Name = n => j <= i
    IN  [n \in names |-> units[last(n)]]

\* A first loop without its delete(old, n).
OldAfterFirstLoopNoDelete(prev, cur) == prev

\* old after the first loop: delete(old, n) for every n of cur.
OldAfterFirstLoop(prev, cur) ==
    [n \in DOMAIN prev \ DOMAIN cur |-> prev[n]]

\* A first loop that puts every current unit into changed.
ChangedAfterFirstLoopAll(f, prev, cur) == cur

\* changed after the first loop: the new or changed units of cur.
ChangedAfterFirstLoop(f, prev, cur) ==
    LET hit == {n \in DOMAIN cur :
                  n \notin DOMAIN prev \/ IsChanged(f, prev[n], cur[n])}
    IN  [n \in hit |-> cur[n]]

\* A delta without the second loop: units that went away are not sent.
ChangedOfNoRemovals(f, prev, cur) == ChangedAfterFirstLoop(f, prev, cur)

\* changed after the second loop: for oldN := range old { changed[oldN] = nil }
ChangedOf(f, prev, cur) ==
    LET first == ChangedAfterFirstLoop(f, prev, cur)
        rest == OldAfterFirstLoop(prev, cur)
    IN  [n \in DOMAIN first \cup DOMAIN rest |->
            IF n \in DOMAIN rest THEN NilUnit ELSE first[n]]

\* What a consumer makes of a delta: a unit sent as nil is deleted, any
\* other is set to the record sent.
ApplyDelta(inv, delta) ==
    LET gone == {n \in DOMAIN delta : delta[n] = NilUnit}
        set == DOMAIN delta \ gone
    IN  [n \in (DOMAIN inv \cup set) \ gone |->
            IF n \in set THEN delta[n] ELSE inv[n]]

\* The state after SubscribeUnitsCustom was called for the subscriptions of
\* started: old is empty, the channels are empty, the goroutine is at the
\* head of its loop.
PollInit(started) ==
    /\ pPc = [s \in Subs |-> IF s \in started THEN "loop" ELSE "off"]
    /\ buffer \in [Subs -> Buffers]
    /\ \A s \in Subs \ started : buffer[s] = 0
    /\ isChangedF \in [Subs -> Comparators]
    /\ \A s \in Subs \ started : isChangedF[s] = "default"
    /\ old = [s \in Subs |-> EmptyUnits]
    /\ changed = [s \in Subs |-> NoDelta]
    /\ lastGood = [s \in Subs |-> EmptyUnits]
    /\ statusChan = [s \in Subs |-> <<>>]
    /\ errChan = [s \in Subs |-> <<>>]
    /\ timer = [s \in Subs |-> "idle"]
    /\ cycleLog = [s \in Subs |-> <<>>]
    /\ nDeltas = [s \in Subs |-> 0]
    /\ nErrs = [s \in Subs |-> 0]
    /\ nFired = [s \in Subs |-> 0]
    /\ view = [s \in Subs |-> EmptyUnits]
    /\ snapChan = [s \in Subs |-> <<>>]

(***************************************************************************)
(* The goroutine of SubscribeUnitsCustom, for subscription s.              *)
(***************************************************************************)
\* timerChan := time.After(interval), at the head of the loop.
PollArm(s) ==
    /\ pPc[s] = "loop"
    /\ Len(cycleLog[s]) < MaxCycles
    /\ timer' = [timer EXCEPT ![s] = "armed"]
    /\ pPc' = [pPc EXCEPT ![s] = "fetch"]
    /\ UNCHANGED jobVars
    /\ UNCHANGED <<nFired, view, snapChan>>
    /\ UNCHANGED <<buffer, isChangedF, old, changed, lastGood, statusChan,
                   errChan, cycleLog, nDeltas, nErrs>>

\* A failed cycle that forgets the retained snapshot.
PollFetchFailResets(s) ==
    /\ pPc[s] = "fetch"
    /\ cycleLog' = [cycleLog EXCEPT ![s] = Append(@, "fail")]
    /\ old' = [old EXCEPT ![s] = EmptyUnits]
    /\ pPc' = [pPc EXCEPT ![s] = "sendErr"]
    /\ UNCHANGED jobVars
    /\ UNCHANGED <<nFired, view, snapChan>>
    /\ UNCHANGED <<buffer, isChangedF, timer, changed, lastGood, statusChan, errChan,
                   nDeltas, nErrs>>

\* Subscriptions that keep their retained snapshot in one map they share.
PollFetchOkSharedOld(s, units) ==
    /\ pPc[s] = "fetch"
    /\ cycleLog' = [cycleLog EXCEPT ![s] = Append(@, "ok")]
    /\ lastGood' = [lastGood EXCEPT ![s] = CurOf(units)]
    /\ changed' = [changed EXCEPT ![s] = ChangedOf(isChangedF[s], old[s], CurOf(units))]
    /\ old' = [t \in Subs |-> CurOf(units)]
    /\ pPc' = [pPc EXCEPT ![s] = "sendStatus"]
    /\ UNCHANGED jobVars
    /\ UNCHANGED <<nFired, view, snapChan>>
    /\ UNCHANGED <<buffer, isChangedF, timer, statusChan, errChan, nDeltas, nErrs>>

\* units, err := ListUnits() with err == nil; cur, changed and old = cur.
\* What is left of the cycle is the send of changed.
PollFetchOk(s, units) ==
    /\ pPc[s] = "fetch"
    /\ cycleLog' = [cycleLog EXCEPT ![s] = Append(@, "ok")]
    /\ lastGood' = [lastGood EXCEPT ![s] = CurOf(units)]
    /\ changed' = [changed EXCEPT ![s] = ChangedOf(isChangedF[s], old[s], CurOf(units))]
    /\ old' = [old EXCEPT ![s] = CurOf(units)]
    /\ pPc' = [pPc EXCEPT ![s] = "sendStatus"]
    /\ UNCHANGED jobVars
    /\ UNCHANGED <<nFired, view, snapChan>>
    /\ UNCHANGED <<buffer, isChangedF, timer, statusChan, errChan, nDeltas, nErrs>>

\* A poller that goes on to the wait for its timer when ListUnits fails,
\* without sending err.
PollFetchFailSkipsErr(s) ==
    /\ pPc[s] = "fetch"
    /\ cycleLog' = [cycleLog EXCEPT ![s] = Append(@, "fail")]
    /\ pPc' = [pPc EXCEPT ![s] = "wait"]
    /\ UNCHANGED jobVars
    /\ UNCHANGED <<nFired, view, snapChan>>
    /\ UNCHANGED <<buffer, isChangedF, timer, old, changed, lastGood,
                   statusChan, errChan, nDeltas, nErrs>>

\* A poller whose goroutine returns when ListUnits fails.
PollFetchFailReturns(s) ==
    /\ pPc[s] = "fetch"
    /\ cycleLog' = [cycleLog EXCEPT ![s] = Append(@, "fail")]
    /\ pPc' = [pPc EXCEPT ![s] = "off"]
    /\ UNCHANGED jobVars
    /\ UNCHANGED <<nFired, view, snapChan>>
    /\ UNCHANGED <<buffer, isChangedF, timer, old, changed, lastGood,
                   statusChan, errChan, nDeltas, nErrs>>

\* units, err := ListUnits() with err != nil.  What is left of the cycle is
\* the send of err.
PollFetchFail(s) ==
    /\ pPc[s] = "fetch"
    /\ cycleLog' = [cycleLog EXCEPT ![s] = Append(@, "fail")]
    /\ pPc' = [pPc EXCEPT ![s] = "sendErr"]
    /\ UNCHANGED jobVars
    /\ UNCHANGED <<nFired, view, snapChan>>
    /\ UNCHANGED <<buffer, isChangedF, timer, old, changed, lastGood, statusChan,
                   errChan, nDeltas, nErrs>>

\* A poller that sends nothing when nothing changed.
PollSendStatusSkipsEmpty(s) ==
    /\ pPc[s] = "sendStatus"
    /\ \/ /\ DOMAIN changed[s] = {}
          /\ UNCHANGED <<statusChan, snapChan, nDeltas>>
       \/ /\ DOMAIN changed[s] # {}
          /\ Len(statusChan[s]) < buffer[s]
          /\ statusChan' = [statusChan EXCEPT ![s] = Append(@, changed[s])]
          /\ snapChan' = [snapChan EXCEPT ![s] = Append(@, lastGood[s])]
          /\ nDeltas' = [nDeltas EXCEPT ![s] = @ + 1]
    /\ changed' = [changed EXCEPT ![s] = NoDelta]
    /\ pPc' = [pPc EXCEPT ![s] = "wait"]
    /\ UNCHANGED jobVars
    /\ UNCHANGED <<nFired, view>>
    /\ UNCHANGED <<buffer, isChangedF, old, lastGood, errChan, timer,
                   cycleLog, nErrs>>

\* A send that does not wait for room in the channel.
PollSendStatusNoBlock(s) ==
    /\ pPc[s] = "sendStatus"
    /\ statusChan' = [statusChan EXCEPT ![s] = Append(@, changed[s])]
    /\ snapChan' = [snapChan EXCEPT ![s] = Append(@, lastGood[s])]
    /\ nDeltas' = [nDeltas EXCEPT ![s] = @ + 1]
    /\ changed' = [changed EXCEPT ![s] = NoDelta]
    /\ pPc' = [pPc EXCEPT ![s] = "wait"]
    /\ UNCHANGED jobVars
    /\ UNCHANGED <<nFired, view>>
    /\ UNCHANGED <<buffer, isChangedF, old, lastGood, errChan, timer,
                   cycleLog, nErrs>>

\* statusChan <- changed, into the buffer: blocks while the buffer is full
\* (always, when buffer is 0).
PollSendStatus(s) ==
    /\ pPc[s] = "sendStatus"
    /\ Len(statusChan[s]) < buffer[s]
    /\ statusChan' = [statusChan EXCEPT ![s] = Append(@, changed[s])]
    /\ snapChan' = [snapChan EXCEPT ![s] = Append(@, lastGood[s])]
    /\ nDeltas' = [nDeltas EXCEPT ![s] = @ + 1]
    /\ changed' = [changed EXCEPT ![s] = NoDelta]
    /\ pPc' = [pPc EXCEPT ![s] = "wait"]
    /\ UNCHANGED jobVars
    /\ UNCHANGED <<nFired, view>>
    /\ UNCHANGED <<buffer, isChangedF, old, lastGood, errChan, timer,
                   cycleLog, nErrs>>

\* errChan <- err, into the buffer.
PollSendErr(s) ==
    /\ pPc[s] = "sendErr"
    /\ Len(errChan[s]) < buffer[s]
    /\ errChan' = [errChan EXCEPT ![s] = Append(@, "err")]
    /\ nErrs' = [nErrs EXCEPT ![s] = @ + 1]
    /\ pPc' = [pPc EXCEPT ![s] = "wait"]
    /\ UNCHANGED jobVars
    /\ UNCHANGED <<nFired, view, snapChan>>
    /\ UNCHANGED <<buffer, isChangedF, old, changed, lastGood, statusChan,
                   timer, cycleLog, nDeltas>>

\* A poller that goes back to the head of its loop without waiting for the
\* timer.
PollWaitTimerNoWait(s) ==
    /\ pPc[s] = "wait"
    /\ timer' = [timer EXCEPT ![s] = "idle"]
    /\ pPc' = [pPc EXCEPT ![s] = "loop"]
    /\ UNCHANGED jobVars
    /\ UNCHANGED <<nFired, view, snapChan>>
    /\ UNCHANGED <<buffer, isChangedF, old, changed, lastGood, statusChan,
                   errChan, cycleLog, nDeltas, nErrs>>

\* <-timerChan
PollWaitTimer(s) ==
    /\ pPc[s] = "wait"
    /\ timer[s] = "fired"
    /\ timer' = [timer EXCEPT ![s] = "idle"]
    /\ pPc' = [pPc EXCEPT ![s] = "loop"]
    /\ UNCHANGED jobVars
    /\ UNCHANGED <<nFired, view, snapChan>>
    /\ UNCHANGED <<buffer, isChangedF, old, changed, lastGood, statusChan,
                   errChan, cycleLog, nDeltas, nErrs>>

\* The runtime: the interval of time.After(interval) elapses.
TimerFire(s) ==
    /\ timer[s] = "armed"
    /\ timer' = [timer EXCEPT ![s] = "fired"]
    /\ nFired' = [nFired EXCEPT ![s] = @ + 1]
    /\ UNCHANGED jobVars
    /\ UNCHANGED <<view, snapChan>>
    /\ UNCHANGED <<pPc, buffer, isChangedF, old, changed, lastGood,
                   statusChan, errChan, cycleLog, nDeltas, nErrs>>

(***************************************************************************)
(* The consumer of a subscription's two channels.                          *)
(***************************************************************************)
\* <-statusChan: the head of the buffer, or, with the buffer empty and the
\* poller waiting in its send, the value handed over directly.
ConsumeStatus(s) ==
    /\ IF statusChan[s] # <<>>
       THEN /\ statusChan' = [statusChan EXCEPT ![s] = Tail(@)]
            /\ snapChan' = [snapChan EXCEPT ![s] = Tail(@)]
            /\ view' = [view EXCEPT ![s] = ApplyDelta(@, Head(statusChan[s]))]
            /\ UNCHANGED <<pPc, changed, nDeltas>>
       ELSE /\ pPc[s] = "sendStatus"
            /\ nDeltas' = [nDeltas EXCEPT ![s] = @ + 1]
            /\ view' = [view EXCEPT ![s] = ApplyDelta(@, changed[s])]
            /\ changed' = [changed EXCEPT ![s] = NoDelta]
            /\ pPc' = [pPc EXCEPT ![s] = "wait"]
            /\ UNCHANGED <<statusChan, snapChan>>
    /\ UNCHANGED jobVars
    /\ UNCHANGED nFired
    /\ UNCHANGED <<buffer, isChangedF, old, lastGood, errChan, timer,
                   cycleLog, nErrs>>

\* <-errChan
ConsumeErr(s) ==
    /\ IF errChan[s] # <<>>
       THEN /\ errChan' = [errChan EXCEPT ![s] = Tail(@)]
            /\ UNCHANGED <<pPc, nErrs>>
       ELSE /\ pPc[s] = "sendErr"
            /\ nErrs' = [nErrs EXCEPT ![s] = @ + 1]
            /\ pPc' = [pPc EXCEPT ![s] = "wait"]
            /\ UNCHANGED errChan
    /\ UNCHANGED jobVars
    /\ UNCHANGED <<nFired, view, snapChan>>
    /\ UNCHANGED <<buffer, isChangedF, old, changed, lastGood, statusChan,
                   timer, cycleLog, nDeltas>>

PollNext(S) ==
    \/ \E s \in S : PollArm(s)
    \/ \E s \in S : \E units \in UnitLists : PollFetchOk(s, units)
    \/ \E s \in S : PollFetchFail(s)
    \/ \E s \in S : PollSendStatus(s)
    \/ \E s \in S : PollSendErr(s)
    \/ \E s \in S : PollWaitTimer(s)
    \/ \E s \in S : TimerFire(s)
    \/ \E s \in S : ConsumeStatus(s)
    \/ \E s \in S : ConsumeErr(s)

\* One subscription.
PollSubs == {"s1"}

PollNext1 == PollNext(PollSubs)

JobInit ==
    /\ jobs = EmptyMap
    /\ jobsLock = Free
    /\ sigCh = <<>>
    /\ nSignals = 0
    /\ lPc = "recv"
    /\ lSig = NilSignal
    /\ lOut = NoChan
    /\ cPc = [c \in Callers |-> "idle"]
    /\ cPath = [c \in Callers |-> NoPath]
    /\ chanBuf = [c \in Callers |-> <<>>]
    /\ cGot = [c \in Callers |-> NoValue]
    /\ nWritten = [c \in Callers |-> 0]
    /\ sigSeq = <<>>
    /\ lSeq = 0
    /\ wSeq = 0

(***************************************************************************)
(* The transport: sysconn.Signal(ch) puts signals on ch without blocking   *)
(* and drops a signal when ch is full.                                     *)
(***************************************************************************)
EmitSignal(sig) ==
    /\ nSignals < MaxSignals
    /\ nSignals' = nSignals + 1
    /\ sigCh' = IF Len(sigCh) < signalBuffer THEN Append(sigCh, sig) ELSE sigCh
    /\ sigSeq' = IF Len(sigCh) < signalBuffer
                 THEN Append(sigSeq, nSignals + 1)
                 ELSE sigSeq
    /\ UNCHANGED pollVars
    /\ UNCHANGED <<lSeq, wSeq>>
    /\ UNCHANGED <<jobs, jobsLock, lPc, lSig, lOut, cPc, cPath, chanBuf,
                   cGot, nWritten>>

(***************************************************************************)
(* The listener goroutine of initSubscriber.                               *)
(***************************************************************************)
\* A listener that takes the signal put on the channel last.
ListenerRecvNewest ==
    /\ lPc = "recv"
    /\ sigCh # <<>>
    /\ sigCh' = SubSeq(sigCh, 1, Len(sigCh) - 1)
    /\ sigSeq' = SubSeq(sigSeq, 1, Len(sigSeq) - 1)
    /\ lSeq' = sigSeq[Len(sigSeq)]
    /\ IF sigCh[Len(sigCh)] # NilSignal /\ sigCh[Len(sigCh)].name = JobRemoved
       THEN lPc' = "lock" /\ lSig' = sigCh[Len(sigCh)]
       ELSE lPc' = "recv" /\ lSig' = NilSignal
    /\ UNCHANGED pollVars
    /\ UNCHANGED <<jobs, jobsLock, nSignals, lOut, cPc, cPath, chanBuf,
                   cGot, nWritten, wSeq>>

\* signal := <-ch; nil and signals of another name are skipped.
ListenerRecv ==
    /\ lPc = "recv"
    /\ sigCh # <<>>
    /\ sigCh' = Tail(sigCh)
    /\ sigSeq' = Tail(sigSeq)
    /\ lSeq' = Head(sigSeq)
    /\ IF Head(sigCh) # NilSignal /\ Head(sigCh).name = JobRemoved
       THEN lPc' = "lock" /\ lSig' = Head(sigCh)
       ELSE lPc' = "recv" /\ lSig' = NilSignal
    /\ UNCHANGED pollVars
    /\ UNCHANGED <<wSeq>>
    /\ UNCHANGED <<jobs, jobsLock, nSignals, lOut, cPc, cPath, chanBuf,
                   cGot, nWritten>>

\* A listener that hands the result to some pending waiter, whatever the job
\* path of the signal.
ListenerLookupAnyWaiter ==
    /\ lPc = "lock"
    /\ jobsLock = Free
    /\ jobsLock' = Listener
    /\ IF DOMAIN jobs # {}
       THEN lPc' = "send" /\ \E p \in DOMAIN jobs : lOut' = jobs[p]
       ELSE lPc' = "unlock" /\ lOut' = NoChan
    /\ UNCHANGED pollVars
    /\ UNCHANGED <<sigSeq, lSeq, wSeq>>
    /\ UNCHANGED <<jobs, sigCh, nSignals, lSig, cPc, cPath, chanBuf, cGot,
                   nWritten>>

\* A listener that goes back to the head of its loop on an unknown job path
\* without releasing the lock.
ListenerLookupKeepsLock ==
    /\ lPc = "lock"
    /\ jobsLock = Free
    /\ jobsLock' = Listener
    /\ IF Lookup(jobs, lSig.job)
       THEN lPc' = "send" /\ lOut' = jobs[lSig.job]
       ELSE lPc' = "recv" /\ lOut' = NoChan
    /\ UNCHANGED pollVars
    /\ UNCHANGED <<sigSeq, lSeq, wSeq>>
    /\ UNCHANGED <<jobs, sigCh, nSignals, lSig, cPc, cPath, chanBuf, cGot,
                   nWritten>>

\* s.jobsLock.Lock(); out, ok := s.jobs[job]
ListenerLookup ==
    /\ lPc = "lock"
    /\ jobsLock = Free
    /\ jobsLock' = Listener
    /\ IF Lookup(jobs, lSig.job)
       THEN lPc' = "send" /\ lOut' = jobs[lSig.job]
       ELSE lPc' = "unlock" /\ lOut' = NoChan
    /\ UNCHANGED pollVars
    /\ UNCHANGED <<sigSeq, lSeq, wSeq>>
    /\ UNCHANGED <<jobs, sigCh, nSignals, lSig, cPc, cPath, chanBuf, cGot,
                   nWritten>>

\* out <- result: blocks while the channel is full.
ListenerSend ==
    /\ lPc = "send"
    /\ Len(chanBuf[lOut]) < completionCap
    /\ chanBuf' = [chanBuf EXCEPT ![lOut] = Append(@, Delivered(lSig))]
    /\ nWritten' = [nWritten EXCEPT ![lOut] = @ + 1]
    /\ jobs' = AfterDelivery(jobs, lSig.job)
    /\ wSeq' = lSeq
    /\ lPc' = "unlock"
    /\ UNCHANGED pollVars
    /\ UNCHANGED <<sigSeq, lSeq>>
    /\ UNCHANGED <<jobsLock, sigCh, nSignals, lSig, lOut, cPc, cPath, cGot>>

\* s.jobsLock.Unlock(), and back to the head of the loop.
ListenerUnlock ==
    /\ lPc = "unlock"
    /\ jobsLock' = Free
    /\ lPc' = "recv"
    /\ lSig' = NilSignal
    /\ lOut' = NoChan
    /\ UNCHANGED pollVars
    /\ UNCHANGED <<sigSeq, lSeq, wSeq>>
    /\ UNCHANGED <<jobs, sigCh, nSignals, cPc, cPath, chanBuf, cGot,
                   nWritten>>

(***************************************************************************)
(* runJob and startJob, called by caller c.                                *)
(***************************************************************************)
\* subscriber.jobsLock.Lock(); ch := make(chan string, 1)
StartJobLock(c) ==
    /\ cPc[c] = "idle"
    /\ jobsLock = Free
    /\ jobsLock' = c
    /\ cPc' = [cPc EXCEPT ![c] = "call"]
    /\ UNCHANGED pollVars
    /\ UNCHANGED <<sigSeq, lSeq, wSeq>>
    /\ UNCHANGED <<jobs, sigCh, nSignals, lPc, lSig, lOut, cPath, chanBuf,
                   cGot, nWritten>>

\* err := sysobj.Call(job, 0, args...).Store(&path), err == nil
StartJobCallOk(c, path) ==
    /\ cPc[c] = "call"
    /\ cPath' = [cPath EXCEPT ![c] = path]
    /\ cPc' = [cPc EXCEPT ![c] = "register"]
    /\ UNCHANGED pollVars
    /\ UNCHANGED <<sigSeq, lSeq, wSeq>>
    /\ UNCHANGED <<jobs, jobsLock, sigCh, nSignals, lPc, lSig, lOut, chanBuf,
                   cGot, nWritten>>

\* A startJob that registers the channel before it looks at err.
StartJobCallFailRegisters(c) ==
    /\ cPc[c] = "call"
    /\ jobs' = Register(jobs, cPath[c], c)
    /\ cPc' = [cPc EXCEPT ![c] = "fail"]
    /\ UNCHANGED pollVars
    /\ UNCHANGED <<sigSeq, lSeq, wSeq>>
    /\ UNCHANGED <<jobsLock, sigCh, nSignals, lPc, lSig, lOut, cPath,
                   chanBuf, cGot, nWritten>>

\* err != nil: return nil, err
StartJobCallFail(c) ==
    /\ cPc[c] = "call"
    /\ cPc' = [cPc EXCEPT ![c] = "fail"]
    /\ UNCHANGED pollVars
    /\ UNCHANGED <<sigSeq, lSeq, wSeq>>
    /\ UNCHANGED <<jobs, jobsLock, sigCh, nSignals, lPc, lSig, lOut, cPath,
                   chanBuf, cGot, nWritten>>

\* subscriber.jobs[path] = ch; return ch, nil
StartJobRegister(c) ==
    /\ cPc[c] = "register"
    /\ jobs' = Register(jobs, cPath[c], c)
    /\ cPc' = [cPc EXCEPT ![c] = "return"]
    /\ UNCHANGED pollVars
    /\ UNCHANGED <<sigSeq, lSeq, wSeq>>
    /\ UNCHANGED <<jobsLock, sigCh, nSignals, lPc, lSig, lOut, cPath, chanBuf,
                   cGot, nWritten>>

\* defer subscriber.jobsLock.Unlock(), on either return; runJob then waits
\* on respCh or returns the error.
StartJobUnlock(c) ==
    /\ cPc[c] \in {"return", "fail"}
    /\ jobsLock' = IF jobsLock = c THEN Free ELSE jobsLock
    /\ cPc' = [cPc EXCEPT ![c] = IF cPc[c] = "return" THEN "await" ELSE "error"]
    /\ UNCHANGED pollVars
    /\ UNCHANGED <<sigSeq, lSeq, wSeq>>
    /\ UNCHANGED <<jobs, sigCh, nSignals, lPc, lSig, lOut, cPath, chanBuf,
                   cGot, nWritten>>

\* return <-respCh, nil
RunJobRecv(c) ==
    /\ cPc[c] = "await"
    /\ chanBuf[c] # <<>>
    /\ cGot' = [cGot EXCEPT ![c] = Head(chanBuf[c])]
    /\ chanBuf' = [chanBuf EXCEPT ![c] = Tail(@)]
    /\ cPc' = [cPc EXCEPT ![c] = "done"]
    /\ UNCHANGED pollVars
    /\ UNCHANGED <<sigSeq, lSeq, wSeq>>
    /\ UNCHANGED <<jobs, jobsLock, sigCh, nSignals, lPc, lSig, lOut, cPath,
                   nWritten>>

JobNext ==
    \/ \E sig \in Signals : EmitSignal(sig)
    \/ ListenerRecv
    \/ ListenerLookup
    \/ ListenerSend
    \/ ListenerUnlock
    \/ \E c \in Callers : StartJobLock(c)
    \/ \E c \in Callers : \E path \in Paths : StartJobCallOk(c, path)
    \/ \E c \in Callers : StartJobCallFail(c)
    \/ \E c \in Callers : StartJobRegister(c)
    \/ \E c \in Callers : StartJobUnlock(c)
    \/ \E c \in Callers : RunJobRecv(c)

\* The correlator alone: no subscription is started.
JobSpecInit == JobInit /\ PollInit({})

JobSpec == JobSpecInit /\ [][JobNext]_vars

\* One subscription alone: no caller calls runJob and no signal arrives.
PollSpecInit == JobInit /\ PollInit(PollSubs)

PollSpec == PollSpecInit /\ [][PollNext1]_vars

Init == JobInit /\ PollInit(Subs)

Next == JobNext \/ PollNext(Subs)

Spec == Init /\ [][Next]_vars


\* The scheduler runs every goroutine that can take a step: the listener,
\* and a caller once it is inside startJob.  Nothing obliges a caller to
\* call runJob, nor the transport to send a signal.
JobFairness ==
    /\ WF_vars(ListenerRecv)
    /\ WF_vars(ListenerLookup)
    /\ WF_vars(ListenerSend)
    /\ WF_vars(ListenerUnlock)
    /\ \A c \in Callers :
        /\ WF_vars(StartJobCallFail(c) \/ \E path \in Paths : StartJobCallOk(c, path))
        /\ WF_vars(StartJobRegister(c))
        /\ WF_vars(StartJobUnlock(c))
        /\ WF_vars(RunJobRecv(c))

FairJobSpec == JobSpec /\ JobFairness

\* Two subscriptions side by side, the first made by SubscribeUnits and the
\* second by SubscribeUnitsCustom with the same comparison and any buffer;
\* ListUnits returns one unit or none.
OneUnitLists ==
    {<<>>, <<[Name |-> "a.service", ActiveState |-> "active", JobId |-> 0]>>}

PollTwoInit ==
    /\ JobInit
    /\ PollInit(Subs)
    /\ isChangedF = [s \in Subs |-> "default"]
    /\ buffer["s1"] = 0

PollTwoNext ==
    \/ \E s \in Subs : PollArm(s)
    \/ \E s \in Subs : \E units \in OneUnitLists : PollFetchOk(s, units)
    \/ \E s \in Subs : PollFetchFail(s)
    \/ \E s \in Subs : PollSendStatus(s)
    \/ \E s \in Subs : PollSendErr(s)
    \/ \E s \in Subs : PollWaitTimer(s)
    \/ \E s \in Subs : TimerFire(s)
    \/ \E s \in Subs : ConsumeStatus(s)
    \/ \E s \in Subs : ConsumeErr(s)

PollTwoSpec == PollTwoInit /\ [][PollTwoNext]_vars

\* The scheduler runs the poller goroutine of subscription s whenever it can
\* take a step, and an armed timer expires.
PollerFairness(s) ==
    /\ WF_vars(PollArm(s))
    /\ WF_vars(PollFetchFail(s) \/ \E units \in UnitLists : PollFetchOk(s, units))
    /\ WF_vars(PollSendStatus(s))
    /\ WF_vars(PollSendErr(s))
    /\ WF_vars(PollWaitTimer(s))
    /\ WF_vars(TimerFire(s))

\* One subscription with any buffer and comparison, for what does not
\* depend on the units fetched: ListUnits returns one unit or none.
PollLiveNext ==
    \/ \E s \in PollSubs : PollArm(s)
    \/ \E s \in PollSubs : \E units \in OneUnitLists : PollFetchOk(s, units)
    \/ \E s \in PollSubs : PollFetchFail(s)
    \/ \E s \in PollSubs : PollSendStatus(s)
    \/ \E s \in PollSubs : PollSendErr(s)
    \/ \E s \in PollSubs : PollWaitTimer(s)
    \/ \E s \in PollSubs : TimerFire(s)
    \/ \E s \in PollSubs : ConsumeStatus(s)
    \/ \E s \in PollSubs : ConsumeErr(s)

PollLiveSpec == PollSpecInit /\ [][PollLiveNext]_vars

\* A consumer that keeps reading both streams of every subscription.
FairPollSpec ==
    /\ PollLiveSpec
    /\ \A s \in PollSubs :
        /\ PollerFairness(s)
        /\ WF_vars(ConsumeStatus(s))
        /\ WF_vars(ConsumeErr(s))

(***************************************************************************)
(* Claims about the job correlator.                                        *)
(***************************************************************************)
\* The transport call of caller c has succeeded.
Enqueued(c) == cPath[c] # NoPath

\* The callers' job paths are pairwise distinct.
DistinctPaths ==
    \A c1, c2 \in Callers :
        (c1 # c2 /\ Enqueued(c1) /\ Enqueued(c2)) => cPath[c1] # cPath[c2]

\* A JobRemoved signal for the job of caller c is on the listener's channel.
NotificationQueued(c) ==
    \E i \in 1..Len(sigCh) :
        sigCh[i].name = JobRemoved /\ sigCh[i].job = cPath[c]

\* C1: every value on a caller's completion channel, and every value runJob
\* returned to it, is the result of a JobRemoved signal that carried the job
\* path the caller's own transport call returned.
C1_CorrelationCorrect ==
    \A c \in Callers :
        /\ \A i \in 1..Len(chanBuf[c]) :
              chanBuf[c][i].from = cPath[c] /\ chanBuf[c][i].val \in Results
        /\ cPc[c] = "done" =>
              cGot[c].from = cPath[c] /\ cGot[c].val \in Results

\* C1 witness: two callers with distinct job paths have both returned, with
\* different results, their jobs concerning the same unit.
C1_Witness ==
    \E c1, c2 \in Callers :
        /\ c1 # c2
        /\ cPc[c1] = "done" /\ cPc[c2] = "done"
        /\ cPath[c1] # cPath[c2]
        /\ cGot[c1].val # cGot[c2].val

\* C2: every successfully enqueued job (job paths pairwise distinct) whose
\* JobRemoved signal is on the listener's channel is eventually resolved:
\* runJob returns.
C2_NoLostNotification ==
    \A c \in Callers :
        (Enqueued(c) /\ NotificationQueued(c) /\ DistinctPaths)
            ~> (cPc[c] = "done" \/ ~DistinctPaths)

\* C3: at most one value is ever written to any one completion channel, and
\* the listener's delivery never finds the channel full.
C3_AtMostOneWrite ==
    /\ \A c \in Callers : nWritten[c] <= 1
    /\ lPc = "send" => Len(chanBuf[lOut]) < completionCap

\* C4: the listener's lookup of a job path that is not in the table changes
\* neither the table nor any completion channel, and the listener then
\* releases the lock and returns to reading its channel.
C4_UnknownPathDiscarded ==
    /\ [][(lPc = "lock" /\ lPc' # "lock" /\ ~Lookup(jobs, lSig.job))
            => (jobs' = jobs /\ chanBuf' = chanBuf /\ nWritten' = nWritten
                /\ lPc' = "unlock" /\ lOut' = NoChan)]_vars
    /\ [][(lPc = "unlock" /\ lPc' # "unlock")
            => (jobs' = jobs /\ chanBuf' = chanBuf /\ lPc' = "recv"
                /\ jobsLock' = Free)]_vars

\* C4 witness: the listener has just looked up a path that is not in the
\* table while another job is pending.
C4_Witness ==
    /\ lPc = "unlock"
    /\ lOut = NoChan
    /\ \E c \in Callers : cPc[c] = "await" /\ Lookup(jobs, cPath[c])

\* C5: after the listener has delivered a result for job path P, P is no
\* longer a key of the pending-job table.
C5_EntryRemovedOnDelivery ==
    (lPc = "unlock" /\ lOut # NoChan) => ~Lookup(jobs, lSig.job)

\* C6: on the path of a failing transport call, from the call to startJob's
\* return, no step changes the pending-job table or writes to a completion
\* channel; the caller is in no entry of the table, nothing is ever written
\* to its channel, it holds no lock once it has returned, and runJob's error
\* return is final (it waits on no channel).
C6_FailedCallLeavesNoTrace ==
    /\ [][\A c \in Callers :
            (cPc[c] \in {"call", "fail"} /\ cPc'[c] \in {"call", "fail", "error"})
                => (jobs' = jobs /\ nWritten' = nWritten)]_vars
    /\ [][\A c \in Callers : cPc[c] = "error" => cPc'[c] = "error"]_vars
    /\ [](\A c \in Callers :
            cPc[c] \in {"fail", "error"} =>
                /\ \A p \in DOMAIN jobs : jobs[p] # c
                /\ nWritten[c] = 0
                /\ cPc[c] = "error" => jobsLock # c)

\* C6 witness: a caller's transport call failed and runJob returned the
\* error, while another caller's job is pending in the table.
C6_Witness ==
    \E c1, c2 \in Callers :
        /\ cPc[c1] = "error"
        /\ cPc[c2] = "await"
        /\ jobsLock = Free
        /\ DOMAIN jobs = {cPath[c2]}

\* C7: the listener never holds the lock while its send has to wait for a
\* caller to read the completion channel.
C7_NoBlockingUnderLock ==
    ~(jobsLock = Listener /\ lPc = "send" /\ Len(chanBuf[lOut]) >= completionCap)


(***************************************************************************)
(* Claims about the subscription poller.                                   *)
(***************************************************************************)
\* The number of "ok" (of "fail") entries of a cycle log.
CountOf(log, what) == Cardinality({i \in 1..Len(log) : log[i] = what})

\* The delta of the specification, name by name: D[n] = C[n] for n in C that
\* is not in P or is reported changed, D[n] = nil for n in P and not in C,
\* and no entry otherwise.
IsDeltaOf(D, f, P, C) ==
    \A n \in Names \cup DOMAIN D :
        IF n \in DOMAIN C
        THEN IF n \notin DOMAIN P \/ IsChanged(f, P[n], C[n])
             THEN n \in DOMAIN D /\ D[n] = C[n]
             ELSE n \notin DOMAIN D
        ELSE IF n \in DOMAIN P
             THEN n \in DOMAIN D /\ D[n] = NilUnit
             ELSE n \notin DOMAIN D

\* C8: the delta a successful cycle is about to send is the delta of the
\* snapshot retained before the cycle and the snapshot just fetched.
C8_ChangeDetection ==
    [][\A s \in Subs :
        (pPc[s] = "fetch" /\ pPc'[s] = "sendStatus")
            => IsDeltaOf(changed'[s], isChangedF[s], old[s], lastGood'[s])]_vars

\* C8 witness: a delta with a removed unit and an added or changed one is
\* about to be sent.
C8_Witness ==
    \E s \in Subs :
        /\ pPc[s] = "sendStatus"
        /\ \E n, m \in DOMAIN changed[s] :
              changed[s][n] = NilUnit /\ changed[s][m] # NilUnit
        /\ Len(cycleLog[s]) >= 2

\* C9: a failed fetch changes neither the retained snapshot nor the delta
\* stream and its cycle publishes one error and no delta; the retained
\* snapshot is always the snapshot of the last successful fetch, and the
\* delta of a successful cycle is computed against it.
C9_FetchFailureKeepsSnapshot ==
    /\ [][\A s \in Subs :
            (pPc[s] = "fetch" /\ pPc'[s] = "sendErr")
                => (old'[s] = old[s] /\ statusChan'[s] = statusChan[s]
                    /\ nDeltas'[s] = nDeltas[s] /\ nErrs'[s] = nErrs[s])]_vars
    /\ [][\A s \in Subs :
            (pPc[s] = "sendErr" /\ pPc'[s] # "sendErr")
                => (pPc'[s] = "wait" /\ nErrs'[s] = nErrs[s] + 1
                    /\ nDeltas'[s] = nDeltas[s] /\ old'[s] = old[s])]_vars
    /\ [][\A s \in Subs :
            (pPc[s] = "fetch" /\ pPc'[s] = "sendStatus")
                => changed'[s] =
                     ChangedOf(isChangedF[s], lastGood[s], lastGood'[s])]_vars
    /\ [](\A s \in Subs : old[s] = lastGood[s])

\* C9 witness: the fetch failed on cycle 2 and succeeded on cycles 1 and 3,
\* one error was published, and the delta of cycle 3 is about to be sent
\* with a non-empty snapshot retained.
C9_Witness ==
    \E s \in Subs :
        /\ cycleLog[s] = <<"ok", "fail", "ok">>
        /\ pPc[s] = "sendStatus"
        /\ nErrs[s] = 1
        /\ nDeltas[s] = 1
        /\ \E n \in DOMAIN changed[s] : changed[s][n] = NilUnit

\* C10: the deltas published are as many as the successful fetches and the
\* errors published as many as the failed ones, but for the one delta or
\* error the poller is about to send; a cycle that sends a delta publishes
\* no error.
C10_OneDeltaPerSuccess ==
    /\ [](\A s \in Subs :
            /\ nDeltas[s] = CountOf(cycleLog[s], "ok")
                              - (IF pPc[s] = "sendStatus" THEN 1 ELSE 0)
            /\ nErrs[s] = CountOf(cycleLog[s], "fail")
                              - (IF pPc[s] = "sendErr" THEN 1 ELSE 0))
    /\ [][\A s \in Subs :
            pPc[s] = "sendStatus" =>
                (nErrs'[s] = nErrs[s] /\ pPc'[s] \in {"sendStatus", "wait"})]_vars

\* C10 witness: a second successful cycle found nothing changed, and its
\* empty delta is in the delta stream.
C10_Witness ==
    \E s \in Subs :
        /\ cycleLog[s] = <<"ok", "ok">>
        /\ pPc[s] = "wait"
        /\ old[s] # EmptyUnits
        /\ nDeltas[s] = 2
        /\ statusChan[s] = <<EmptyUnits>>

\* The comparison reports a record unchanged against itself.
Reflexive(f) == \A u \in UnitStatus : ~IsChanged(f, u, u)

LastCycle(s) == cycleLog[s][Len(cycleLog[s])]

\* A subscription made by SubscribeUnits whose consumer reads statusChan
\* and never errChan.  The channels are unbuffered, so a send is completed
\* by the consumer's receive and by nothing else.
DeltaOnlyInit ==
    /\ JobInit
    /\ PollInit(PollSubs)
    /\ \A s \in PollSubs : buffer[s] = 0 /\ isChangedF[s] = "default"

DeltaOnlyNext ==
    \/ \E s \in PollSubs : PollArm(s)
    \/ \E s \in PollSubs : \E units \in UnitLists : PollFetchOk(s, units)
    \/ \E s \in PollSubs : PollFetchFail(s)
    \/ \E s \in PollSubs : PollWaitTimer(s)
    \/ \E s \in PollSubs : TimerFire(s)
    \/ \E s \in PollSubs : ConsumeStatus(s)

DeltaOnlySpec == DeltaOnlyInit /\ [][DeltaOnlyNext]_vars

\* The poller runs, the timer expires, and the consumer keeps reading
\* statusChan.
FairDeltaOnlySpec ==
    /\ DeltaOnlySpec
    /\ \A s \in PollSubs : PollerFairness(s) /\ WF_vars(ConsumeStatus(s))

\* C11: when the comparison is reflexive and a successful fetch returns the
\* very snapshot the successful fetch of the cycle before returned, the delta
\* of the second cycle is the empty mapping.
C11_SelfDiffEmpty ==
    [][\A s \in Subs :
        (/\ pPc[s] = "fetch" /\ pPc'[s] = "sendStatus"
         /\ Reflexive(isChangedF[s])
         /\ cycleLog[s] # <<>> /\ LastCycle(s) = "ok"
         /\ lastGood'[s] = lastGood[s])
        => changed'[s] = EmptyUnits]_vars

\* The second of two successful cycles over one non-empty snapshot, its empty
\* delta not yet sent.
C11_Witness ==
    \E s \in Subs :
        /\ pPc[s] = "sendStatus" /\ isChangedF[s] = "default"
        /\ cycleLog[s] = <<"ok", "ok">>
        /\ old[s] # EmptyUnits /\ view[s] = old[s]
        /\ changed[s] = EmptyUnits

\* startJob has put the channel of caller c into the table.
Registered(c) == cPc[c] \in {"return", "await", "done"}

\* The table holds another caller's channel under the job path of caller c.
Overwritten(c) == Registered(c) /\ jobs[cPath[c]] # c

C13_InOrderOnce ==
    [][/\ lSeq' # lSeq =>
            /\ lPc = "recv"
            /\ lSeq' = lSeq + 1
            /\ \A i \in 1..Len(sigSeq') : sigSeq'[i] > lSeq'
            /\ Len(sigCh') = Len(sigCh) - 1
       /\ \A i \in 1..Len(sigSeq) :
            \/ \E j \in 1..Len(sigSeq') :
                    sigSeq'[j] = sigSeq[i] /\ sigCh'[j] = sigCh[i]
            \/ lSeq' = sigSeq[i] /\ lSig' \in {sigCh[i], NilSignal}
       /\ \A c \in Callers :
            nWritten'[c] > nWritten[c] =>
                /\ wSeq' = lSeq /\ wSeq' > wSeq
                /\ chanBuf'[c][Len(chanBuf'[c])] = Delivered(lSig)]_vars

\* The results of two signals for two registered job paths have been
\* written, that of the signal produced second last.
C13_Witness ==
    \E c1, c2 \in Callers :
        /\ c1 # c2 /\ cPath[c1] # cPath[c2]
        /\ nWritten[c1] = 1 /\ nWritten[c2] = 1
        /\ wSeq = 2 /\ lSeq = 2 /\ lPc = "unlock" /\ lOut = c2

\* C14: the delta of a subscription's first successful fetch is the snapshot
\* fetched, every unit mapped to its record and none to nil; and the delta
\* of a successful fetch that returns no units maps every unit of the
\* retained snapshot to nil, and nothing else, and leaves the retained
\* snapshot empty.  Both hold for every comparison function.
C14_PureAdditionRemoval ==
    [][\A s \in Subs :
        (pPc[s] = "fetch" /\ pPc'[s] = "sendStatus") =>
            /\ CountOf(cycleLog[s], "ok") = 0 =>
                    /\ old[s] = EmptyUnits
                    /\ changed'[s] = lastGood'[s]
                    /\ \A n \in DOMAIN changed'[s] : changed'[s][n] # NilUnit
            /\ lastGood'[s] = EmptyUnits =>
                    /\ changed'[s] = [n \in DOMAIN old[s] |-> NilUnit]
                    /\ old'[s] = EmptyUnits]_vars

\* A first fetch returned every unit name and the next one no unit: the
\* delta about to be sent maps all of them to nil.
C14_Witness ==
    \E s \in Subs :
        /\ cycleLog[s] = <<"ok", "ok">>
        /\ pPc[s] = "sendStatus"
        /\ nDeltas[s] = 1
        /\ old[s] = EmptyUnits
        /\ changed[s] = [n \in Names |-> NilUnit]

\* C15: with a consumer that keeps reading both streams and a timer that
\* keeps expiring, a cycle whose fetch failed is followed by another fetch,
\* whatever the cycles before it were: whenever the k-th fetch has failed,
\* for k below the number of cycles the model runs, a further fetch is
\* eventually made.
C15_FailureNotFatal ==
    \A s \in Subs : \A k \in 1..(MaxCycles - 1) :
        (Len(cycleLog[s]) = k /\ cycleLog[s][k] = "fail")
            ~> (Len(cycleLog[s]) > k)

\* A fetch made after two failed fetches in a row.
C15_Witness ==
    \E s \in Subs :
        /\ Len(cycleLog[s]) = 3
        /\ cycleLog[s][1] = "fail" /\ cycleLog[s][2] = "fail"
        /\ nErrs[s] = 2

\* C16: a fetch is made only when every delta and error of the cycles
\* before it has been accepted by its channel; while the poller is sending
\* it makes no fetch, and it leaves the send only by the channel accepting
\* what it sends; and the deltas and errors waiting unread in a channel are
\* never more than the buffer argument.
C16_Backpressure ==
    [][\A s \in Subs :
        /\ Len(statusChan'[s]) <= buffer[s]
        /\ Len(errChan'[s]) <= buffer[s]
        /\ cycleLog'[s] # cycleLog[s] =>
                /\ pPc[s] = "fetch"
                /\ nDeltas[s] + nErrs[s] = Len(cycleLog[s])
                /\ Len(cycleLog'[s]) = Len(cycleLog[s]) + 1
        /\ pPc[s] \in {"sendStatus", "sendErr"} =>
                /\ cycleLog'[s] = cycleLog[s]
                /\ pPc'[s] # pPc[s] =>
                        nDeltas'[s] + nErrs'[s] = nDeltas[s] + nErrs[s] + 1]_vars

\* The consumer has read nothing: the buffer holds one delta, the poller is
\* blocked sending the next one, and makes no fetch although its timer has
\* expired.
C16_Witness ==
    \E s \in Subs :
        /\ buffer[s] = 1 /\ Len(statusChan[s]) = 1
        /\ pPc[s] = "sendStatus"
        /\ view[s] = EmptyUnits /\ old[s] # EmptyUnits
        /\ timer[s] = "fired"
        /\ cycleLog[s] = <<"ok", "ok">>

\* C17: the timer is armed at the head of a cycle and only there, before the
\* fetch of that cycle; a fetch is made with the timer of its cycle running
\* or expired and the timer of every cycle before it expired; a cycle ends
\* only from the wait for its timer, when that timer has expired; and the
\* fetches made are never more than the timer expiries plus one.
C17_TimerOrdering ==
    [][\A s \in Subs :
        /\ (timer[s] # "armed" /\ timer'[s] = "armed") =>
                /\ pPc[s] = "loop" /\ pPc'[s] = "fetch"
                /\ timer[s] = "idle"
                /\ cycleLog'[s] = cycleLog[s]
        /\ cycleLog'[s] # cycleLog[s] =>
                /\ timer[s] \in {"armed", "fired"}
                /\ nFired[s] =
                      Len(cycleLog[s]) + (IF timer[s] = "fired" THEN 1 ELSE 0)
        /\ (pPc[s] # "loop" /\ pPc'[s] = "loop") =>
                pPc[s] = "wait" /\ timer[s] = "fired"
        /\ Len(cycleLog'[s]) <= nFired'[s] + 1]_vars

\* A second fetch has been made, after the one expiry of the timer of the
\* first cycle; the timer of the second cycle is running.
C17_Witness ==
    \E s \in Subs :
        /\ Len(cycleLog[s]) = 2
        /\ nFired[s] = 1
        /\ timer[s] = "armed"
        /\ pPc[s] \in {"sendStatus", "sendErr"}

\* All there is of subscription s: its goroutine, its retained snapshot, its
\* channels, its timer and its consumer.
SubState(s) ==
    <<pPc[s], buffer[s], isChangedF[s], old[s], changed[s], lastGood[s],
      statusChan[s], errChan[s], timer[s], cycleLog[s], nDeltas[s], nErrs[s],
      nFired[s], view[s], snapChan[s]>>

\* Whatever subscription s is waiting for is something of its own: each of
\* its steps can be taken as soon as its own position, timer and channels
\* allow it.
OwnPace(s) ==
    /\ (pPc[s] = "loop" /\ Len(cycleLog[s]) < MaxCycles) => ENABLED PollArm(s)
    /\ pPc[s] = "fetch" =>
            /\ ENABLED PollFetchFail(s)
            /\ \A units \in OneUnitLists : ENABLED PollFetchOk(s, units)
    /\ (pPc[s] = "sendStatus" /\ Len(statusChan[s]) < buffer[s]) =>
            ENABLED PollSendStatus(s)
    /\ (pPc[s] = "sendErr" /\ Len(errChan[s]) < buffer[s]) =>
            ENABLED PollSendErr(s)
    /\ (pPc[s] = "sendStatus" \/ statusChan[s] # <<>>) =>
            ENABLED ConsumeStatus(s)
    /\ (pPc[s] = "sendErr" \/ errChan[s] # <<>>) => ENABLED ConsumeErr(s)
    /\ (pPc[s] = "wait" /\ timer[s] = "fired") => ENABLED PollWaitTimer(s)
    /\ timer[s] = "armed" => ENABLED TimerFire(s)

\* C18: of two subscriptions running side by side, a step of one changes
\* nothing of the other (snapshot, pending delta, channels, timer, counts);
\* the delta a successful fetch produces is computed from the subscription's
\* own retained snapshot and own fetch result; and no step of a subscription
\* waits for anything of the other, so a consumer that has stopped reading
\* one of them does not hold up the other.
C18_Independent ==
    /\ [](\A s \in Subs : OwnPace(s))
    /\ [][\A s \in Subs :
        /\ \A t \in Subs \ {s} :
                SubState(s)' # SubState(s) => SubState(t)' = SubState(t)
        /\ (pPc[s] = "fetch" /\ pPc'[s] = "sendStatus") =>
                /\ changed'[s] =
                      ChangedOf(isChangedF[s], lastGood[s], lastGood'[s])
                /\ old'[s] = lastGood'[s]]_vars

\* The consumer of one subscription has never read and its poller is
\* blocked in the send of its first delta, the unit present; the other
\* subscription has meanwhile published a first delta and a second one, for
\* the unit gone, and its consumer has read both.
C18_Witness ==
    \E s, t \in Subs :
        /\ s # t
        /\ buffer[s] = 0 /\ pPc[s] = "sendStatus" /\ nDeltas[s] = 0
        /\ cycleLog[s] = <<"ok">> /\ old[s] # EmptyUnits
        /\ cycleLog[t] = <<"ok", "ok">> /\ nDeltas[t] = 2
        /\ statusChan[t] = <<>> /\ pPc[t] = "wait"
        /\ old[t] = EmptyUnits /\ view[t] = EmptyUnits /\ nFired[t] >= 1

\* How many deltas the consumer of subscription s has read.
DeltasRead(s) == nDeltas[s] - Len(statusChan[s])

\* C19: under the comparison of SubscribeUnits, a consumer that starts from
\* an empty inventory and applies each delta it reads, in order, holds after
\* each delta the snapshot of the successful fetch that produced that delta,
\* whatever fetches succeeded and failed before; between reads its inventory
\* does not change.
C19_DeltasReconstruct ==
    [][\A s \in Subs :
        isChangedF[s] = "default" =>
            /\ DeltasRead(s)' = DeltasRead(s) + 1 =>
                    view'[s] = IF statusChan[s] # <<>>
                               THEN Head(snapChan[s])
                               ELSE lastGood[s]
            /\ DeltasRead(s)' = DeltasRead(s) => view'[s] = view[s]
            /\ DeltasRead(s)' \in {DeltasRead(s), DeltasRead(s) + 1}]_vars

\* Three fetches, the second one failed; the consumer has read both deltas
\* and holds the snapshot of the third fetch, one unit with a job.
C19_Witness ==
    \E s \in Subs :
        /\ isChangedF[s] = "default"
        /\ cycleLog[s] = <<"ok", "fail", "ok">>
        /\ DeltasRead(s) = 2 /\ nErrs[s] = 1
        /\ view[s] = old[s]
        /\ DOMAIN view[s] = {"a.service"} /\ view[s]["a.service"].JobId = 1

\* C20, as stated: with unbuffered channels and a consumer that reads the
\* delta stream only, a failed cycle does not stop the deltas: the poller
\* goes on to the next fetch after it, and the delta of every successful
\* fetch is eventually read by the consumer.
C20_DeltasWithoutErrReader ==
    \A s \in Subs :
        /\ \A k \in 1..(MaxCycles - 1) :
                (Len(cycleLog[s]) = k /\ cycleLog[s][k] = "fail")
                    ~> (Len(cycleLog[s]) > k)
        /\ \A k \in 1..MaxCycles :
                (Len(cycleLog[s]) = k /\ cycleLog[s][k] = "ok")
                    ~> (DeltasRead(s) = CountOf(cycleLog[s], "ok"))

\* C20, amended: with unbuffered channels and a consumer that reads the
\* delta stream only, the first failed fetch is the last fetch: the poller
\* stays in the send of the error, makes no further fetch and publishes no
\* further delta, and the consumer reads nothing more.
C20_FailureStopsDeltas ==
    [][\A s \in Subs :
        (cycleLog[s] # <<>> /\ LastCycle(s) = "fail") =>
            /\ pPc[s] = "sendErr" /\ pPc'[s] = "sendErr"
            /\ cycleLog'[s] = cycleLog[s]
            /\ nDeltas'[s] = nDeltas[s] /\ nErrs'[s] = 0
            /\ view'[s] = view[s]]_vars

\* The second fetch has failed after a first delta was read; the timer of
\* the cycle has expired and the poller is still in the send of the error,
\* with cycles left to run.
C20_Witness ==
    \E s \in Subs :
        /\ buffer[s] = 0
        /\ cycleLog[s] = <<"ok", "fail">> /\ Len(cycleLog[s]) < MaxCycles
        /\ DeltasRead(s) = 1 /\ view[s] # EmptyUnits
        /\ pPc[s] = "sendErr" /\ timer[s] = "fired"

=============================================================================
